---- MODULE Spec2Model ----
(***************************************************************************)
(* A model of labelgen.py (src/labelgen.py): one run of main() from the    *)
(* point where the settings dialog has been applied (line 136) to the      *)
(* end of the run.  The schematic document (kicad-skip) and the two files  *)
(* are modelled by what main() does to them; the CSV is modelled as        *)
(* csv.DictReader presents it to main().                                   *)
(*                                                                         *)
(* Text is a sequence of one-character strings, so that str.strip(),       *)
(* str.lower() and str.upper() are computed and not assumed.               *)
(* Lengths are integers counting 1/10000 mm, so that 1 mil = 0.0254 mm is  *)
(* exact (254); arithmetic on them is exact, not floating point.           *)
(***************************************************************************)
EXTENDS Integers, Sequences, FiniteSets, TLC

VARIABLES
    pc,            \* position of main()
    dialog,        \* the applied ConfigDialog: unit, use_global, pitch
    sch_caps,      \* what the loaded Schematic exposes: "full", "nonew", "none"
    schFile,       \* content of the schematic file on disk
    bakFile,       \* content of the .bak file on disk
    snapshot,      \* bytes returned by dialog.schematic.read_bytes()
    bakWrites,     \* completed bak_path.write_bytes() calls
    schWrites,     \* completed sch.write() calls
    loaded,        \* Schematic(...) has been constructed
    collection,    \* the collection main() chose: "unset", "local", "global"
    fieldnames,    \* reader.fieldnames or []
    label_col,     \* the resolved header name, None when there is none
    rows,          \* the rows enumerate(reader) has yielded so far
    local_labels,  \* sch.label: the labels created in it, in order
    global_labels, \* sch.global_label: the labels created in it, in order
    count,         \* main()'s count
    message        \* the last messagebox shown: "none", "error", "info"

vars == <<pc, dialog, sch_caps, schFile, bakFile, snapshot, bakWrites, schWrites,
          loaded, collection, fieldnames, label_col, rows, local_labels,
          global_labels, count, message>>

\* ------------------------------------------------------------------ bounds

\* The largest number of data rows the reader yields in one run.
MaxRows == 2

\* ------------------------------------------------------------------ text

\* str.isspace() for the characters of the model.
IsSpace(c) == c \in {" ", "\t"}

\* The cased letters of the model, lower case and upper case at the same index.
LowerLetters == <<"a", "b", "e", "f", "l", "r">>
UpperLetters == <<"A", "B", "E", "F", "L", "R">>

\* str.lower() on one character.
LowerChar(c) ==
    IF \E i \in 1..Len(UpperLetters) : UpperLetters[i] = c
    THEN LowerLetters[CHOOSE i \in 1..Len(UpperLetters) : UpperLetters[i] = c]
    ELSE c

\* str.upper() on one character.
UpperChar(c) ==
    IF \E i \in 1..Len(LowerLetters) : LowerLetters[i] = c
    THEN UpperLetters[CHOOSE i \in 1..Len(LowerLetters) : LowerLetters[i] = c]
    ELSE c

\* str.lower()
Lower(s) == [i \in 1..Len(s) |-> LowerChar(s[i])]

\* str.upper()
Upper(s) == [i \in 1..Len(s) |-> UpperChar(s[i])]

RECURSIVE LStrip(_)
LStrip(s) == IF s # <<>> /\ IsSpace(Head(s)) THEN LStrip(Tail(s)) ELSE s

RECURSIVE RStrip(_)
RStrip(s) ==
    IF s # <<>> /\ IsSpace(s[Len(s)]) THEN RStrip(SubSeq(s, 1, Len(s) - 1)) ELSE s

\* str.strip()
Strip(s) == RStrip(LStrip(s))

\* The literal "label" of line 162.
LabelLiteral == <<"l", "a", "b", "e", "l">>

\* ------------------------------------------------------------------ CSV

\* Python's None: restval of csv.DictReader, and the default of next(..., None).
None == <<"<None>">>

\* Header names a CSV may carry.
H_Label   == <<"L", "a", "b", "e", "l">>
H_label_s == <<" ", "l", "a", "b", "e", "l", " ">>
H_LABEL   == <<"L", "A", "B", "E", "L">>
H_Ref     == <<"R", "e", "f">>

\* The header rows of the model; <<>> is a file with no header row.
Headers ==
    { <<>>,
      <<H_Ref>>,
      <<H_LABEL>>,
      <<H_Ref, H_Label>>,
      <<H_label_s, H_Ref>>,
      <<H_Label, H_label_s>>,
      <<H_Label, H_Label>>,
      <<H_Ref, H_Ref>> }

\* The cells of the model: empty, blank, padded lower case, upper case.
Cells == { <<>>, <<" ">>, <<" ", "a", "\t">>, <<"B">> }

\* The data rows the reader can yield: one or two cells.  (csv.DictReader
\* drops blank lines itself, so a yielded row has at least one cell.)
Rows == { <<c>> : c \in Cells } \cup { <<c, d>> : c \in Cells, d \in Cells }

\* Line 162: next((c for c in fieldnames if c.strip().lower() == "label"), None)
Matches(name) == Lower(Strip(name)) = LabelLiteral

ResolveLabelCol(names) ==
    IF \E i \in 1..Len(names) : Matches(names[i])
    THEN names[CHOOSE i \in 1..Len(names) :
                  /\ Matches(names[i])
                  /\ \A j \in 1..(i - 1) : ~Matches(names[j])]
    ELSE None

\* csv.DictReader.__next__: d = dict(zip(fieldnames, row)), then restval (None)
\* for the fieldnames the row is too short for; the value under a key is the
\* one assigned last, that is at the greatest index carrying that name.
\* row.get(key, "") on it: the default is used only when the key is absent.
RowGet(names, row, key) ==
    LET at == { i \in 1..Len(names) : names[i] = key }
    IN  IF at = {} THEN <<>>
        ELSE LET last == CHOOSE i \in at : \A j \in at : j <= i
             IN  IF last <= Len(row) THEN row[last] ELSE None

\* ------------------------------------------------------------------ layout

\* One millimetre and one mil (0.0254 mm, line 142) in the model's length unit.
MM == 10000
MIL == 254

\* Line 139.
START_X_MM == -10
START_Y_MM == -10

\* Line 142: pitch_mm = dialog.pitch if dialog.unit == "mm" else dialog.pitch * 0.0254
PitchMm(d) == IF d.unit = "mm" THEN d.pitch * MM ELSE d.pitch * MIL

\* A variant of LabelY that leaves the row index out.
LabelY_NoIndex(idx, pitch_mm) == START_Y_MM * MM - pitch_mm

\* Line 172: lbl.move(START_X_MM, START_Y_MM - idx * pitch_mm)
LabelX == START_X_MM * MM
LabelY(idx, pitch_mm) == START_Y_MM * MM - idx * pitch_mm

\* ------------------------------------------------------------------ files

Original == [kind |-> "original", local |-> <<>>, global |-> <<>>]
Absent   == [kind |-> "absent", local |-> <<>>, global |-> <<>>]
Partial  == [kind |-> "partial", local |-> <<>>, global |-> <<>>]

\* sch.write(path): the loaded document with the labels created in it.
Serialized(loc, glob) == [kind |-> "written", local |-> loc, global |-> glob]

\* ------------------------------------------------------------------ init

\* The pitch entry is not validated (line 116): 0 is accepted.  2 and 100 are
\* the pitches the dialog names (lines 59, 55).
Pitches == {0, 2, 100}

Dialogs == [unit : {"mm", "mil"}, use_global : BOOLEAN, pitch : Pitches]

Init ==
    /\ pc = "backup_read"
    /\ dialog \in Dialogs
    /\ sch_caps \in {"full", "nonew", "none"}
    /\ schFile = Original
    /\ bakFile = Absent
    /\ snapshot = Absent
    /\ bakWrites = 0
    /\ schWrites = 0
    /\ loaded = FALSE
    /\ collection = "unset"
    /\ fieldnames = <<>>
    /\ label_col = None
    /\ rows = <<>>
    /\ local_labels = <<>>
    /\ global_labels = <<>>
    /\ count = 0
    /\ message = "none"

\* ------------------------------------------------------------------ backup

\* Line 146, dialog.schematic.read_bytes()
BackupRead ==
    /\ pc = "backup_read"
    /\ snapshot' = schFile
    /\ pc' = "backup_write"
    /\ UNCHANGED <<dialog, sch_caps, schFile, bakFile, bakWrites, schWrites, loaded,
                   collection, fieldnames, label_col, rows, local_labels,
                   global_labels, count, message>>

\* Line 146, read_bytes() raises OSError: main() has no handler, the run ends.
BackupReadFail ==
    /\ pc = "backup_read"
    /\ pc' = "raised_backup"
    /\ UNCHANGED <<dialog, sch_caps, schFile, bakFile, snapshot, bakWrites, schWrites,
                   loaded, collection, fieldnames, label_col, rows, local_labels,
                   global_labels, count, message>>

\* Line 146, bak_path.write_bytes(...)
BackupWrite ==
    /\ pc = "backup_write"
    /\ bakFile' = snapshot
    /\ bakWrites' = bakWrites + 1
    /\ pc' = "load"
    /\ UNCHANGED <<dialog, sch_caps, schFile, snapshot, schWrites, loaded, collection,
                   fieldnames, label_col, rows, local_labels, global_labels, count,
                   message>>

\* A variant of BackupWriteFail that swallows the OSError and goes on to load.
BackupWriteFail_Swallowed ==
    /\ pc = "backup_write"
    /\ bakFile' \in {bakFile, Partial}
    /\ pc' = "load"
    /\ UNCHANGED <<dialog, sch_caps, schFile, snapshot, bakWrites, schWrites, loaded,
                   collection, fieldnames, label_col, rows, local_labels,
                   global_labels, count, message>>

\* Line 146, write_bytes() raises OSError: the .bak file is left as it was or
\* partly written; main() has no handler, the run ends.
BackupWriteFail ==
    /\ pc = "backup_write"
    /\ bakFile' \in {bakFile, Partial}
    /\ pc' = "raised_backup"
    /\ UNCHANGED <<dialog, sch_caps, schFile, snapshot, bakWrites, schWrites, loaded,
                   collection, fieldnames, label_col, rows, local_labels,
                   global_labels, count, message>>

\* ------------------------------------------------------------------ load

\* A variant of ChooseCollection that never looks at the dialog.
ChooseCollection_AlwaysLocal(d, caps) == "local"

\* Lines 153-156: the global collection only when the dialog asks for it and the
\* document has a global_label attribute that has a new attribute.
ChooseCollection(d, caps) ==
    IF d.use_global /\ caps # "none" /\ caps = "full" THEN "global" ELSE "local"

\* Lines 149-156: ensure_skip(), Schematic(path), the choice of the collection.
LoadSchematic ==
    /\ pc = "load"
    /\ loaded' = TRUE
    /\ collection' = ChooseCollection(dialog, sch_caps)
    /\ pc' = "open_csv"
    /\ UNCHANGED <<dialog, sch_caps, schFile, bakFile, snapshot, bakWrites, schWrites,
                   fieldnames, label_col, rows, local_labels, global_labels, count,
                   message>>

\* ------------------------------------------------------------------ header

\* Lines 160-162 with a label column: the loop is entered.
OpenCsv ==
    /\ pc = "open_csv"
    /\ \E h \in Headers :
          /\ ResolveLabelCol(h) # None
          /\ ResolveLabelCol(h) # <<>>
          /\ fieldnames' = h
          /\ label_col' = ResolveLabelCol(h)
    /\ pc' = "loop"
    /\ UNCHANGED <<dialog, sch_caps, schFile, bakFile, snapshot, bakWrites, schWrites,
                   loaded, collection, rows, local_labels, global_labels, count,
                   message>>

\* A variant of MissingColumn without the sys.exit(1): the loop is entered.
MissingColumn_NoExit ==
    /\ pc = "open_csv"
    /\ \E h \in Headers :
          /\ ResolveLabelCol(h) = None \/ ResolveLabelCol(h) = <<>>
          /\ fieldnames' = h
          /\ label_col' = ResolveLabelCol(h)
    /\ message' = "error"
    /\ pc' = "loop"
    /\ UNCHANGED <<dialog, sch_caps, schFile, bakFile, snapshot, bakWrites, schWrites,
                   loaded, collection, rows, local_labels, global_labels, count>>

\* Lines 163-165: `not label_col`: showerror, sys.exit(1).
MissingColumn ==
    /\ pc = "open_csv"
    /\ \E h \in Headers :
          /\ ResolveLabelCol(h) = None \/ ResolveLabelCol(h) = <<>>
          /\ fieldnames' = h
          /\ label_col' = ResolveLabelCol(h)
    /\ message' = "error"
    /\ pc' = "exit1"
    /\ UNCHANGED <<dialog, sch_caps, schFile, bakFile, snapshot, bakWrites, schWrites,
                   loaded, collection, rows, local_labels, global_labels, count>>

\* ------------------------------------------------------------------ rows

\* Lines 170-172: the label created for the row at index idx of enumerate().
NewLabel(idx, raw, d) ==
    [value |-> Upper(raw), x |-> LabelX, y |-> LabelY(idx, PitchMm(d))]

\* A variant of RowRaises that persists the document on the way out (a
\* `finally: sch.write(...)`).
RowRaises_Persisting ==
    /\ pc = "loop"
    /\ Len(rows) < MaxRows
    /\ \E row \in Rows :
          /\ RowGet(fieldnames, row, label_col) = None
          /\ rows' = Append(rows, row)
    /\ schFile' = Serialized(local_labels, global_labels)
    /\ schWrites' = schWrites + 1
    /\ pc' = "raised_row"
    /\ UNCHANGED <<dialog, sch_caps, bakFile, snapshot, bakWrites, loaded, collection,
                   fieldnames, label_col, local_labels, global_labels, count, message>>

\* Line 167 raises: row.get() returned None (the row has no cell for the
\* column), None has no strip(); main() has no handler, the run ends.
RowRaises ==
    /\ pc = "loop"
    /\ Len(rows) < MaxRows
    /\ \E row \in Rows :
          /\ RowGet(fieldnames, row, label_col) = None
          /\ rows' = Append(rows, row)
    /\ pc' = "raised_row"
    /\ UNCHANGED <<dialog, sch_caps, schFile, bakFile, snapshot, bakWrites, schWrites,
                   loaded, collection, fieldnames, label_col, local_labels,
                   global_labels, count, message>>

\* Lines 167-169: raw is empty after strip(): continue.
RowSkipped ==
    /\ pc = "loop"
    /\ Len(rows) < MaxRows
    /\ \E row \in Rows :
          /\ RowGet(fieldnames, row, label_col) # None
          /\ Strip(RowGet(fieldnames, row, label_col)) = <<>>
          /\ rows' = Append(rows, row)
    /\ UNCHANGED <<pc, dialog, sch_caps, schFile, bakFile, snapshot, bakWrites,
                   schWrites, loaded, collection, fieldnames, label_col, local_labels,
                   global_labels, count, message>>

\* Lines 167-173: a label is created in the chosen collection; idx is the
\* index enumerate() gives the row, the number of rows yielded before it.
RowInserted ==
    /\ pc = "loop"
    /\ Len(rows) < MaxRows
    /\ \E row \in Rows :
          /\ RowGet(fieldnames, row, label_col) # None
          /\ Strip(RowGet(fieldnames, row, label_col)) # <<>>
          /\ LET lbl == NewLabel(Len(rows), Strip(RowGet(fieldnames, row, label_col)),
                                 dialog)
             IN  /\ local_labels' = IF collection = "local"
                                    THEN Append(local_labels, lbl) ELSE local_labels
                 /\ global_labels' = IF collection = "global"
                                     THEN Append(global_labels, lbl) ELSE global_labels
          /\ rows' = Append(rows, row)
    /\ count' = count + 1
    /\ UNCHANGED <<pc, dialog, sch_caps, schFile, bakFile, snapshot, bakWrites,
                   schWrites, loaded, collection, fieldnames, label_col, message>>

\* ------------------------------------------------------------------ commit

\* Lines 175-177, once the reader is exhausted: sch.write(), showinfo, print.
WriteSchematic ==
    /\ pc = "loop"
    /\ schFile' = Serialized(local_labels, global_labels)
    /\ schWrites' = schWrites + 1
    /\ message' = "info"
    /\ pc' = "done"
    /\ UNCHANGED <<dialog, sch_caps, bakFile, snapshot, bakWrites, loaded, collection,
                   fieldnames, label_col, rows, local_labels, global_labels, count>>

Next ==
    \/ BackupRead
    \/ BackupReadFail
    \/ BackupWrite
    \/ BackupWriteFail
    \/ LoadSchematic
    \/ OpenCsv
    \/ MissingColumn
    \/ RowRaises
    \/ RowSkipped
    \/ RowInserted
    \/ WriteSchematic

Spec == Init /\ [][Next]_vars

\* ------------------------------------------------------------------ vocabulary of the properties

\* Every label the run has created, in creation order (one collection is empty).
Created == local_labels \o global_labels

\* The run has ended.
Terminal == pc \in {"done", "exit1", "raised_backup", "raised_row"}

\* The header row has been read.
HeaderRead == pc \in {"loop", "done", "exit1", "raised_row"}

\* The index of the first header that is "label" after trimming and
\* case-folding; 0 when there is none.
FirstMatch(names) ==
    IF \E i \in 1..Len(names) : Matches(names[i])
    THEN CHOOSE i \in 1..Len(names) :
            /\ Matches(names[i])
            /\ \A j \in 1..(i - 1) : ~Matches(names[j])
    ELSE 0

\* The row has a cell under the first matching column.
HasLabelCell(names, row) == FirstMatch(names) \in 1..Len(row)

\* The row's cell under the first matching column; a missing cell is empty.
LabelCell(names, row) ==
    IF HasLabelCell(names, row) THEN row[FirstMatch(names)] ELSE <<>>

\* The rows whose label cell is non-empty after trimming, as indices.
Qualifying(names, rs) ==
    { i \in 1..Len(rs) : Strip(LabelCell(names, rs[i])) # <<>> }

\* The trimmed, upper-cased label cells of the qualifying rows, in file order.
RECURSIVE ExpectedTexts(_, _)
ExpectedTexts(names, rs) ==
    IF rs = <<>> THEN <<>>
    ELSE LET t == Strip(LabelCell(names, Head(rs)))
         IN  (IF t = <<>> THEN <<>> ELSE <<Upper(t)>>) \o ExpectedTexts(names, Tail(rs))

Texts(ls) == [i \in 1..Len(ls) |-> ls[i].value]

\* ------------------------------------------------------------------ properties

\* C1: the k-th label a run inserts (k from 0 over the rows whose label cell is
\* non-empty after trimming) is at x = -10.0 and y = -10.0 - k * pitchMm, so
\* that empty rows between two inserted labels leave no gap.
C1_DenseOrdinals ==
    \A k \in 1..Len(Created) :
        /\ Created[k].x = START_X_MM * MM
        /\ Created[k].y = START_Y_MM * MM - (k - 1) * PitchMm(dialog)

\* C2: when the backup cannot be completed the run has ended with the
\* schematic never loaded, no label created and the schematic file never
\* written; and whenever the schematic is loaded, a label exists or the
\* schematic file has been written, the backup write has been completed.
C2_BackupBeforeMutation ==
    /\ pc = "raised_backup" =>
          /\ ~loaded
          /\ Created = <<>>
          /\ schWrites = 0
          /\ schFile = Original
          /\ ~ENABLED Next
    /\ (pc \notin {"backup_read", "backup_write"} /\ bakWrites = 0) =>
          pc = "raised_backup"
    /\ (loaded \/ Created # <<>> \/ schWrites > 0) =>
          /\ bakWrites = 1
          /\ bakFile = Original

\* C2 witness: the backup write failed after the original was read.
C2_Witness == pc = "raised_backup" /\ snapshot = Original /\ bakFile = Partial

\* C3: once a header without any variant of "label" has been read, the run has
\* ended in failure (error shown, exit 1), the schematic file is as before the
\* run, no label has been created, and the backup equals the pre-run content.
C3_MissingColumnLeavesSchematic ==
    (HeaderRead /\ FirstMatch(fieldnames) = 0) =>
        /\ pc = "exit1"
        /\ message = "error"
        /\ schFile = Original
        /\ schWrites = 0
        /\ Created = <<>>
        /\ count = 0
        /\ bakFile = Original
        /\ ~ENABLED Next

\* C3 witness: a run that ended on a header of two non-label columns.
C3_Witness == pc = "exit1" /\ fieldnames = <<H_Ref, H_Ref>> /\ bakFile = Original

\* C4 as claimed: with global visibility every label is created in the global
\* collection and none in the local one, whatever the document; with local
\* visibility every label is created in the local collection.
C4_GlobalAlwaysGlobal ==
    /\ dialog.use_global => (local_labels = <<>> /\ Len(global_labels) = count)
    /\ ~dialog.use_global => (global_labels = <<>> /\ Len(local_labels) = count)

\* C4 as amended: with global visibility every label is created in the global
\* collection when the document has a global_label collection with a new
\* operation, and in the local collection when it has not; with local
\* visibility every label is created in the local collection.
C4_GlobalWhenSupported ==
    /\ (dialog.use_global /\ sch_caps = "full") =>
          (local_labels = <<>> /\ Len(global_labels) = count)
    /\ (dialog.use_global /\ sch_caps # "full") =>
          (global_labels = <<>> /\ Len(local_labels) = count)
    /\ ~dialog.use_global => (global_labels = <<>> /\ Len(local_labels) = count)
    /\ (loaded /\ dialog.use_global /\ sch_caps = "full") => collection = "global"

\* C4 witness: a finished global run on a full document with two labels.
C4_Witness ==
    /\ pc = "done"
    /\ dialog.use_global
    /\ sch_caps = "full"
    /\ Len(global_labels) = 2

\* C5: a yielded row with no cell under the resolved label column is skipped:
\* it does not end the run and creates no label.
C5_ShortRowSkipped ==
    \A i \in 1..Len(rows) :
        (FirstMatch(fieldnames) > Len(rows[i])) =>
            /\ ~(pc = "raised_row" /\ i = Len(rows))
            /\ Len(Created) <= Len(rows) - 1

\* C6: the texts of the labels created are, in file order, the trimmed and
\* upper-cased label cells that are non-empty after trimming; no text has
\* surrounding whitespace or a lower-case letter.
C6_TextsAreNormalizedCells ==
    /\ pc \in {"loop", "done"} => Texts(Created) = ExpectedTexts(fieldnames, rows)
    /\ \A k \in 1..Len(Created) :
          /\ Created[k].value # <<>>
          /\ Strip(Created[k].value) = Created[k].value
          /\ Upper(Created[k].value) = Created[k].value

\* C7: a successful run on a CSV with N rows whose label cell is non-empty
\* after trimming creates N labels and reports N; the running count is the
\* number of labels created so far.
C7_CountIsQualifyingRows ==
    /\ count = Len(Created)
    /\ pc = "done" => count = Cardinality(Qualifying(fieldnames, rows))

\* C8: the resolved column is the first header that is "label" after trimming
\* and case-folding, the value read for a row is its cell under that column
\* (also when a later header matches or is identical), and a header with no
\* such variant is rejected.  The rows looked at are those with a cell under
\* every header, so that no missing cell (C5) plays a part.
C8_FirstMatchingColumnRead ==
    HeaderRead =>
        /\ FirstMatch(fieldnames) = 0 => pc = "exit1"
        /\ FirstMatch(fieldnames) # 0 =>
              /\ pc # "exit1"
              /\ label_col = fieldnames[FirstMatch(fieldnames)]
              /\ \A i \in 1..Len(rows) :
                    Len(rows[i]) >= Len(fieldnames) =>
                        RowGet(fieldnames, rows[i], label_col)
                            = LabelCell(fieldnames, rows[i])

\* C9 as claimed: the schematic file is overwritten at most once and, in every
\* run, the backup file is written exactly once; the overwrite comes after the
\* last row and never in a run that ended in a failure.
C9_BackupExactlyOnce ==
    /\ schWrites <= 1
    /\ Terminal => bakWrites = 1
    /\ schWrites > 0 =>
          (pc = "done" /\ schFile = Serialized(local_labels, global_labels))
    /\ pc \in {"raised_backup", "exit1", "raised_row"} => schWrites = 0

\* C9 as amended: the schematic file is overwritten at most once and the backup
\* file is written at most once, exactly once in every run whose backup step
\* did not fail; the overwrite comes after the last row, holds every label
\* created, and never happens in a run that ended in a failure.
C9_WriteOnceAfterRows ==
    /\ schWrites <= 1
    /\ bakWrites <= 1
    /\ (Terminal /\ pc # "raised_backup") => bakWrites = 1
    /\ pc = "raised_backup" => bakWrites = 0
    /\ schWrites > 0 =>
          /\ pc = "done"
          /\ schFile = Serialized(local_labels, global_labels)
          /\ ~ENABLED Next
    /\ pc = "done" => schWrites = 1
    /\ pc \in {"raised_backup", "exit1", "raised_row"} =>
          (schWrites = 0 /\ schFile = Original)

\* C9 witness: a run that failed during extraction after creating a label.
C9_Witness ==
    /\ pc = "raised_row"
    /\ count = 1
    /\ bakWrites = 1
    /\ schWrites = 0

====
